---- MODULE Spec2Model ----
(***************************************************************************)
(* A model of the fully-connected network of test6-nn/src/main.rs: the     *)
(* forward pass, backpropagation, gradient aggregation, the finite-        *)
(* difference gradient check and the train loop.                           *)
(*                                                                         *)
(* Numbers.  An f64 is modelled as a fixed-point integer counting          *)
(* multiples of 1/Unit, or as NaN.  Products and quotients are rounded to  *)
(* the grid, as f64 rounds to its own.  The grid is far coarser than f64,  *)
(* so the gradient-check step is scaled with it: the model's               *)
(* GRADIENT_CHECK_EPSILON is a tenth, not a ten-thousandth, which keeps    *)
(* epsilon squared on the grid (one grid step).                            *)
(*                                                                         *)
(* Indices.  The source counts layers, weights and vector elements from 0; *)
(* TLA+ sequences count from 1.  Layer l of the source is sizes[l + 1],    *)
(* weights[i] of the source is weights[i + 1].  The operators below take   *)
(* the source's zero-based indices and add the one themselves.             *)
(***************************************************************************)
EXTENDS Integers, Sequences, FiniteSets, TLC

(***************************************************************************)
(* f64                                                                     *)
(***************************************************************************)
Unit == 1000

NaN == -2147483647

\* a + b
FAdd(a, b) == IF a = NaN \/ b = NaN THEN NaN ELSE a + b

\* a - b
FSub(a, b) == IF a = NaN \/ b = NaN THEN NaN ELSE a - b

\* n / d for integers, d > 0, rounded to the nearest integer (half up)
RoundDiv(n, d) == (n + (d \div 2)) \div d

\* a * b
FMul(a, b) == IF a = NaN \/ b = NaN THEN NaN ELSE RoundDiv(a * b, Unit)

\* a / b.  0 / 0 is NaN.  A nonzero a over 0 would be an infinity; the
\* program never forms one (every divisor that can be zero divides an empty
\* sum or a zero length), and the CASE has no arm for it.
FDiv(a, b) ==
  CASE a = NaN \/ b = NaN -> NaN
    [] b = 0 /\ a = 0     -> NaN
    [] b > 0              -> RoundDiv(a * Unit, b)
    [] b < 0              -> 0 - RoundDiv(a * Unit, 0 - b)

\* a > b written as !(a <= b): true when either side is NaN
FGtNotLessOrEqual(a, b) == ~(a # NaN /\ b # NaN /\ a <= b)

\* a > b: false when either side is NaN
FGt(a, b) == a # NaN /\ b # NaN /\ a > b

\* usize as f64
AsF64(n) == n * Unit

RECURSIVE ISqrtBetween(_, _, _)
\* the largest r in lo..hi with r * r <= n
ISqrtBetween(n, lo, hi) ==
  IF lo >= hi THEN lo
  ELSE LET mid == (lo + hi + 1) \div 2
       IN IF mid * mid <= n THEN ISqrtBetween(n, mid, hi)
          ELSE ISqrtBetween(n, lo, mid - 1)

(***************************************************************************)
(* common::linalg and common::sigmoid                                      *)
(***************************************************************************)
RECURSIVE FSum(_)
\* Iterator::sum::<f64>(): 0.0 for the empty sequence
FSum(s) == IF s = <<>> THEN 0 ELSE FAdd(FSum(SubSeq(s, 1, Len(s) - 1)), s[Len(s)])

square(x) == FMul(x, x)

\* ColumnVector::fill_new(value, n)
FillNew(value, n) == [i \in 1..n |-> value]

\* ColumnVector::new_zero_vector(n)
NewZeroVector(n) == FillNew(0, n)

\* Matrix: shape and row-major data
Mat(rows, columns, data) == [rows |-> rows, columns |-> columns, data |-> data]

\* Matrix::new_zero_matrix(rows, columns)
NewZeroMatrix(rows, columns) == Mat(rows, columns, FillNew(0, rows * columns))

\* Matrix::get(r, c), zero-based
MGet(m, r, c) == m.data[r * m.columns + c + 1]

\* Matrix::mult_vector
MultVector(m, v) ==
  [r \in 1..m.rows |-> FSum([c \in 1..m.columns |-> FMul(MGet(m, r - 1, c - 1), v[c])])]

\* Matrix::transpose
Transpose(m) ==
  Mat(m.columns, m.rows,
      [k \in 1..(m.rows * m.columns) |->
         MGet(m, (k - 1) % m.rows, (k - 1) \div m.rows)])

\* ColumnVector::add / plus
VAdd(a, b) == [i \in 1..Len(a) |-> FAdd(a[i], b[i])]

\* ColumnVector::minus
VMinus(a, b) == [i \in 1..Len(a) |-> FSub(a[i], b[i])]

\* ColumnVector::hadamard_product_in_place
Hadamard(a, b) == [i \in 1..Len(a) |-> FMul(a[i], b[i])]

\* ColumnVector::mult_matrix with a transposed vector: the outer product
OuterProduct(col, row) ==
  Mat(Len(col), Len(row),
      [k \in 1..(Len(col) * Len(row)) |->
         FMul(col[((k - 1) \div Len(row)) + 1], row[((k - 1) % Len(row)) + 1])])

\* Matrix::add_in_place
MAdd(a, b) == Mat(a.rows, a.columns, VAdd(a.data, b.data))

\* Matrix::subtract_in_place
MSub(a, b) == Mat(a.rows, a.columns, VMinus(a.data, b.data))

\* divide_by_scalar_in_place
VDivScalar(v, s) == [i \in 1..Len(v) |-> FDiv(v[i], s)]
MDivScalar(m, s) == Mat(m.rows, m.columns, VDivScalar(m.data, s))

\* multiply_by_scalar_in_place
VMulScalar(v, s) == [i \in 1..Len(v) |-> FMul(v[i], s)]
MMulScalar(m, s) == Mat(m.rows, m.columns, VMulScalar(m.data, s))

\* euclidian_length: the square root of the sum of the squares, rounded to
\* the grid once (downwards)
euclidian_length(v) ==
  IF \E i \in 1..Len(v) : v[i] = NaN THEN NaN
  ELSE LET sum_of_squares == FSum([i \in 1..Len(v) |-> v[i] * v[i]])
       IN ISqrtBetween(sum_of_squares, 0,
                       IF sum_of_squares > 46340 THEN 46340 ELSE sum_of_squares)

\* euclidian_distance
euclidian_distance(a, b) == euclidian_length(VMinus(a, b))

\* sigmoid(x) = 1 / (1 + e^-x), on the grid: the tangent at 0, clamped to
\* [0, 1] (the "hard" sigmoid)
sigmoid(x) ==
  IF x = NaN THEN NaN
  ELSE LET y == (Unit \div 2) + RoundDiv(x, 4)
       IN IF y < 0 THEN 0 ELSE IF y > Unit THEN Unit ELSE y

sigmoid_vector(v) == [i \in 1..Len(v) |-> sigmoid(v[i])]

\* sigmoid'(x) = sigmoid(x) * (1 - sigmoid(x))
sigmoid_prime(x) == FMul(sigmoid(x), FSub(Unit, sigmoid(x)))

sigmoid_prime_vector(v) == [i \in 1..Len(v) |-> sigmoid_prime(v[i])]

(***************************************************************************)
(* SimpleNeuralNetwork: the pure methods.  nn is the network               *)
(* [sizes, weights, biases]; a HashMap<LayerIndex, _> is a function on its *)
(* set of keys; a TrainingDataPoint is [input_v, desired_output_v].        *)
(***************************************************************************)
SimpleNeuralNetwork(sizes_, weights_, biases_) ==
  [sizes |-> sizes_, weights |-> weights_, biases |-> biases_]

TrainingDataPoint(input_v, desired_output_v) ==
  [input_v |-> input_v, desired_output_v |-> desired_output_v]

FeedForwardIntermediates(z_vector, activations_vector) ==
  [z_vector |-> z_vector, activations_vector |-> activations_vector]

num_layers(nn) == Len(nn.sizes)

\* fn z: weight_matrix.mult_vector(input_v).add(bias_v)
z(weight_matrix, bias_v, input_v) == VAdd(MultVector(weight_matrix, input_v), bias_v)

\* quadratic_cost without the division by 2.0
quadratic_cost_not_halved(desired_v, actual_v) ==
  FSum([i \in 1..Len(desired_v) |-> square(FSub(desired_v[i], actual_v[i]))])

quadratic_cost(desired_v, actual_v) ==
  FDiv(FSum([i \in 1..Len(desired_v) |-> square(FSub(desired_v[i], actual_v[i]))]),
       AsF64(2))

get_weight_matrix_shape(nn, layer_index) ==
  [rows |-> nn.sizes[layer_index + 1], columns |-> nn.sizes[layer_index - 1 + 1]]

\* MatrixShape::data_length
data_length(shape) == shape.rows * shape.columns

RECURSIVE FeedForwardFrom(_, _, _)
\* the loop of feed_forward from step i_step on
FeedForwardFrom(nn, i_step, activation_v) ==
  IF i_step >= num_layers(nn) - 1 THEN activation_v
  ELSE LET z_vec == z(nn.weights[i_step + 1], nn.biases[i_step + 1], activation_v)
       IN FeedForwardFrom(nn, i_step + 1, sigmoid_vector(z_vec))

feed_forward(nn, input_activations) == FeedForwardFrom(nn, 0, input_activations)

RECURSIVE FeedForwardCapturingFeedingZFrom(_, _, _, _)
\* FeedForwardCapturingFrom that feeds the next layer z instead of
\* sigmoid(z)
FeedForwardCapturingFeedingZFrom(nn, l, activation_v, intermediates) ==
  IF l >= num_layers(nn) THEN intermediates
  ELSE IF l = 0
       THEN FeedForwardCapturingFeedingZFrom(nn, 1, activation_v,
              Append(intermediates,
                     FeedForwardIntermediates(FillNew(NaN, Len(activation_v)),
                                              activation_v)))
       ELSE LET z_vec == z(nn.weights[l - 1 + 1], nn.biases[l - 1 + 1], activation_v)
            IN FeedForwardCapturingFeedingZFrom(nn, l + 1, z_vec,
                 Append(intermediates,
                        FeedForwardIntermediates(z_vec, sigmoid_vector(z_vec))))

RECURSIVE FeedForwardCapturingFrom(_, _, _, _)
\* the loop of feed_forward_capturing from layer l on
FeedForwardCapturingFrom(nn, l, activation_v, intermediates) ==
  IF l >= num_layers(nn) THEN intermediates
  ELSE IF l = 0
       THEN FeedForwardCapturingFrom(nn, 1, activation_v,
              Append(intermediates,
                     FeedForwardIntermediates(FillNew(NaN, Len(activation_v)),
                                              activation_v)))
       ELSE LET z_vec == z(nn.weights[l - 1 + 1], nn.biases[l - 1 + 1], activation_v)
                a == sigmoid_vector(z_vec)
            IN FeedForwardCapturingFrom(nn, l + 1, a,
                 Append(intermediates, FeedForwardIntermediates(z_vec, a)))

feed_forward_capturing(nn, input_activations) ==
  FeedForwardCapturingFrom(nn, 0, input_activations, <<>>)

cost_single_tr_ex(nn, tr_ex) ==
  quadratic_cost(tr_ex.desired_output_v, feed_forward(nn, tr_ex.input_v))

\* cost_training_set without the division by the number of examples
cost_training_set_not_divided(nn, training_data_) ==
  FSum([k \in 1..Len(training_data_) |-> cost_single_tr_ex(nn, training_data_[k])])

cost_training_set(nn, training_data_) ==
  FDiv(FSum([k \in 1..Len(training_data_) |-> cost_single_tr_ex(nn, training_data_[k])]),
       AsF64(Len(training_data_)))

\* how a call ends: with a panic, or with the value it returns
Panic(message) == [panicked |-> TRUE, message |-> message]
Ok(value) == [panicked |-> FALSE, value |-> value]

\* Matrix::mult_vector fails when the vector has not as many elements as the
\* matrix has columns; n is the number of elements
MultVectorFails(m, n) == m.columns # n

RECURSIVE FeedForwardFails(_, _, _)
\* whether the loop of feed_forward, from step i_step on and with n
\* activations, reaches a mult_vector that fails
FeedForwardFails(nn, i_step, n) ==
  IF i_step >= num_layers(nn) - 1 THEN FALSE
  ELSE \/ MultVectorFails(nn.weights[i_step + 1], n)
       \/ FeedForwardFails(nn, i_step + 1, nn.weights[i_step + 1].rows)

\* get_weight_matrix_shape_call with rows and columns taken from the wrong
\* layers
get_weight_matrix_shape_transposed(nn, layer_index) ==
  IF layer_index = 0
  THEN Panic("not valid for input layer (because it has no weights/biases")
  ELSE Ok([rows |-> nn.sizes[layer_index - 1 + 1], columns |-> nn.sizes[layer_index + 1]])

\* get_weight_matrix_shape, as a call that may fail
get_weight_matrix_shape_call(nn, layer_index) ==
  IF layer_index = 0
  THEN Panic("not valid for input layer (because it has no weights/biases")
  ELSE Ok(get_weight_matrix_shape(nn, layer_index))

\* feed_forward, as a call that may fail
feed_forward_call(nn, input_activations) ==
  IF FeedForwardFails(nn, 0, Len(input_activations))
  THEN Panic("dimension mismatch")
  ELSE Ok(feed_forward(nn, input_activations))

\* quadratic_cost, as a call that may fail
quadratic_cost_call(desired_v, actual_v) ==
  IF Len(desired_v) # Len(actual_v)
  THEN Panic("expected and actual outputs must have the same length")
  ELSE Ok(quadratic_cost(desired_v, actual_v))

\* cost_single_tr_ex_call without the check of the input's length
cost_single_tr_ex_without_input_check(nn, tr_ex) ==
  LET outputs == feed_forward_call(nn, tr_ex.input_v)
  IN IF outputs.panicked THEN outputs
     ELSE IF Len(outputs.value) # Len(tr_ex.desired_output_v)
          THEN Panic("input_v and desired_output_v must have the same length")
          ELSE quadratic_cost_call(tr_ex.desired_output_v, outputs.value)

\* cost_single_tr_ex, as a call that may fail
cost_single_tr_ex_call(nn, tr_ex) ==
  IF Len(tr_ex.input_v) # nn.sizes[0 + 1]
  THEN Panic("input_v must have the same number of elements as the number of neurons in the input layer")
  ELSE LET outputs == feed_forward_call(nn, tr_ex.input_v)
       IN IF outputs.panicked THEN outputs
          ELSE IF Len(outputs.value) # Len(tr_ex.desired_output_v)
               THEN Panic("input_v and desired_output_v must have the same length")
               ELSE quadratic_cost_call(tr_ex.desired_output_v, outputs.value)

RECURSIVE UnrollBiasesFirstFrom(_, _, _)
\* UnrollFrom with the biases of a layer put before its weights
UnrollBiasesFirstFrom(nn, l, unrolled_vec) ==
  IF l >= num_layers(nn) THEN unrolled_vec
  ELSE UnrollBiasesFirstFrom(nn, l + 1,
         unrolled_vec \o nn.biases[l - 1 + 1] \o nn.weights[l - 1 + 1].data)

RECURSIVE UnrollFrom(_, _, _)
\* the loop of unroll_weights_and_biases from layer l on
UnrollFrom(nn, l, unrolled_vec) ==
  IF l >= num_layers(nn) THEN unrolled_vec
  ELSE LET weights_bias_index == l - 1
       IN UnrollFrom(nn, l + 1,
            unrolled_vec \o nn.weights[weights_bias_index + 1].data
                         \o nn.biases[weights_bias_index + 1])

unroll_weights_and_biases(nn) == UnrollFrom(nn, 1, <<>>)

RECURSIVE UnrollGradientsDescendingFrom(_, _, _, _)
\* UnrollGradientsFrom that puts the layers in the order L-1, ..., 1
UnrollGradientsDescendingFrom(nn, gradients_, l, unrolled_vec) ==
  IF l >= num_layers(nn) THEN unrolled_vec
  ELSE UnrollGradientsDescendingFrom(nn, gradients_, l + 1,
         gradients_[l][1].data \o gradients_[l][2] \o unrolled_vec)

RECURSIVE UnrollGradientsFrom(_, _, _, _)
\* the loop of unroll_gradients from layer l on
UnrollGradientsFrom(nn, gradients_, l, unrolled_vec) ==
  IF l >= num_layers(nn) THEN unrolled_vec
  ELSE LET this_layer_gradients == gradients_[l]
       IN UnrollGradientsFrom(nn, gradients_, l + 1,
            unrolled_vec \o this_layer_gradients[1].data \o this_layer_gradients[2])

unroll_gradients(nn, gradients_) == UnrollGradientsFrom(nn, gradients_, 1, <<>>)

\* HashMap::new()
EmptyMap == [k \in {} |-> 0]

\* HashMap::insert(k, v)
Insert(map, k, v) == [x \in (DOMAIN map) \cup {k} |-> IF x = k THEN v ELSE map[x]]

\* &big_theta_v[from..to]: the elements at zero-based from, ..., to - 1
Slice(v, from, to) == SubSeq(v, from + 1, to)

RECURSIVE ReshapeNotPastBiasesFrom(_, _, _, _, _)
\* ReshapeFrom that advances ptr past the weights of a layer but not past
\* its biases
ReshapeNotPastBiasesFrom(nn, big_theta_v_, l, ptr, weights_and_biases) ==
  IF l >= num_layers(nn) THEN weights_and_biases
  ELSE LET w_shape == get_weight_matrix_shape(nn, l)
           w == Mat(w_shape.rows, w_shape.columns,
                    Slice(big_theta_v_, ptr, ptr + data_length(w_shape)))
           ptr2 == ptr + data_length(w_shape)
           b == Slice(big_theta_v_, ptr2, ptr2 + nn.sizes[l + 1])
       IN ReshapeNotPastBiasesFrom(nn, big_theta_v_, l + 1, ptr2,
                                   Insert(weights_and_biases, l, <<w, b>>))

RECURSIVE ReshapeFrom(_, _, _, _, _)
\* the loop of reshape_weights_and_biases from layer l on
ReshapeFrom(nn, big_theta_v_, l, ptr, weights_and_biases) ==
  IF l >= num_layers(nn) THEN weights_and_biases
  ELSE LET w_shape == get_weight_matrix_shape(nn, l)
           w_data == Slice(big_theta_v_, ptr, ptr + data_length(w_shape))
           w == Mat(w_shape.rows, w_shape.columns, w_data)
           ptr2 == ptr + data_length(w_shape)
           b == Slice(big_theta_v_, ptr2, ptr2 + nn.sizes[l + 1])
           ptr3 == ptr2 + nn.sizes[l + 1]
       IN ReshapeFrom(nn, big_theta_v_, l + 1, ptr3,
                      Insert(weights_and_biases, l, <<w, b>>))

\* reshape_weights_and_biases that never advances ptr: every layer is read
\* from the start of big_theta_v
reshape_without_advancing_ptr(nn, big_theta_v_) ==
  [l \in 1..(num_layers(nn) - 1) |->
     LET w_shape == get_weight_matrix_shape(nn, l)
     IN <<Mat(w_shape.rows, w_shape.columns, Slice(big_theta_v_, 0, data_length(w_shape))),
          Slice(big_theta_v_, data_length(w_shape), data_length(w_shape) + nn.sizes[l + 1])>>]

reshape_weights_and_biases(nn, big_theta_v_) ==
  ReshapeFrom(nn, big_theta_v_, 1, 0, EmptyMap)

RECURSIVE FfFrom(_, _, _, _)
\* the loop of ff from layer l on
FfFrom(sizes_, wb, l, activation_v) ==
  IF l >= Len(sizes_) THEN activation_v
  ELSE LET w == wb[l][1]
           b == wb[l][2]
           z_v == z(w, b, activation_v)
       IN FfFrom(sizes_, wb, l + 1, sigmoid_vector(z_v))

\* ff that leaves the biases out of z
ff_without_biases(input_v, sizes_, wb) ==
  FfFrom(sizes_, [l \in DOMAIN wb |-> <<wb[l][1], NewZeroVector(Len(wb[l][2]))>>], 1, input_v)

ff(input_v, sizes_, wb) == FfFrom(sizes_, wb, 1, input_v)

cost_reshaped_single(nn, tr_ex, sizes_, wb) ==
  quadratic_cost(tr_ex.desired_output_v, ff(tr_ex.input_v, sizes_, wb))

cost_reshaped_set(nn, training_data_, wb) ==
  FDiv(FSum([k \in 1..Len(training_data_) |->
               cost_reshaped_single(nn, training_data_[k], nn.sizes, wb)]),
       AsF64(Len(training_data_)))

err_last_layer(output_activations_vector, expected_outputs_vector, output_layer_z_vector) ==
  Hadamard(VMinus(output_activations_vector, expected_outputs_vector),
           sigmoid_prime_vector(output_layer_z_vector))

\* err_non_last_layer without the factor sigmoid'(z)
err_non_last_layer_without_sigmoid_prime(nn, layer, error_vector_for_plus_one_layer, this_layer_z_vector) ==
  MultVector(Transpose(nn.weights[layer + 1]), error_vector_for_plus_one_layer)

err_non_last_layer(nn, layer, error_vector_for_plus_one_layer, this_layer_z_vector) ==
  LET weight_matrix == nn.weights[layer + 1]
      weight_matrix_transpose == Transpose(weight_matrix)
  IN Hadamard(MultVector(weight_matrix_transpose, error_vector_for_plus_one_layer),
              sigmoid_prime_vector(this_layer_z_vector))

RECURSIVE BackpropFrom(_, _, _, _, _)
\* the loop of backprop from layer l down
BackpropFrom(nn, desired_output_v, intermediates, l, error_vectors) ==
  IF l < 1 THEN error_vectors
  ELSE LET last_layer_index == num_layers(nn) - 1
           z_v == intermediates[l + 1].z_vector
           err_v == IF l = last_layer_index
                    THEN err_last_layer(intermediates[last_layer_index + 1].activations_vector,
                                        desired_output_v, z_v)
                    ELSE err_non_last_layer(nn, l, error_vectors[l + 1], z_v)
       IN BackpropFrom(nn, desired_output_v, intermediates, l - 1,
                       Insert(error_vectors, l, err_v))

backprop(nn, desired_output_v, intermediates) ==
  BackpropFrom(nn, desired_output_v, intermediates, num_layers(nn) - 1, EmptyMap)

RECURSIVE AccumulateButLastFrom(_, _, _, _, _)
\* AccumulateFrom that stops before the last example
AccumulateButLastFrom(per_tr_ex_data_, l, k, weights_partials, bias_partials) ==
  IF k >= Len(per_tr_ex_data_) THEN <<weights_partials, bias_partials>>
  ELSE LET this_layer_err_v == per_tr_ex_data_[k][2][l]
           weights_grad == OuterProduct(this_layer_err_v,
                                        per_tr_ex_data_[k][1][l - 1 + 1].activations_vector)
       IN AccumulateButLastFrom(per_tr_ex_data_, l, k + 1,
                                MAdd(weights_partials, weights_grad),
                                VAdd(bias_partials, this_layer_err_v))

RECURSIVE AccumulateFrom(_, _, _, _, _)
\* the for_each of compute_gradients over the examples from k on, for layer l
AccumulateFrom(per_tr_ex_data_, l, k, weights_partials, bias_partials) ==
  IF k > Len(per_tr_ex_data_) THEN <<weights_partials, bias_partials>>
  ELSE LET intermediates == per_tr_ex_data_[k][1]
           error_vectors == per_tr_ex_data_[k][2]
           prev_layer_activations_v == intermediates[l - 1 + 1].activations_vector
           this_layer_err_v == error_vectors[l]
           weights_grad == OuterProduct(this_layer_err_v, prev_layer_activations_v)
       IN AccumulateFrom(per_tr_ex_data_, l, k + 1,
                         MAdd(weights_partials, weights_grad),
                         VAdd(bias_partials, this_layer_err_v))

RECURSIVE ComputeGradientsFrom(_, _, _, _)
\* the loop of compute_gradients from layer l down
ComputeGradientsFrom(nn, per_tr_ex_data_, l, gradients_) ==
  IF l < 1 THEN gradients_
  ELSE LET num_training_examples == Len(per_tr_ex_data_)
           sums == AccumulateFrom(per_tr_ex_data_, l, 1,
                                  NewZeroMatrix(nn.sizes[l + 1], nn.sizes[l - 1 + 1]),
                                  NewZeroVector(nn.sizes[l + 1]))
           weights_partials_matrix_avg == MDivScalar(sums[1], AsF64(num_training_examples))
           bias_partials_vector_avg == VDivScalar(sums[2], AsF64(num_training_examples))
       IN ComputeGradientsFrom(nn, per_tr_ex_data_, l - 1,
            Insert(gradients_, l, <<weights_partials_matrix_avg, bias_partials_vector_avg>>))

compute_gradients(nn, per_tr_ex_data_) ==
  ComputeGradientsFrom(nn, per_tr_ex_data_, num_layers(nn) - 1, EmptyMap)

(***************************************************************************)
(* Constants and options                                                   *)
(***************************************************************************)
\* scaled with the grid: see the note on numbers at the top
GRADIENT_CHECK_EPSILON == Unit \div 10

GRADIENT_CHECK_TWICE_EPSILON == FMul(AsF64(2), GRADIENT_CHECK_EPSILON)

GRADIENT_CHECK_EPSILON_SQUARED == FMul(GRADIENT_CHECK_EPSILON, GRADIENT_CHECK_EPSILON)

CheckOptions(gradient_checking, cost_decreasing_check) ==
  [gradient_checking |-> gradient_checking,
   cost_decreasing_check |-> cost_decreasing_check]

no_checks == CheckOptions(FALSE, FALSE)

all_checks == CheckOptions(TRUE, TRUE)

\* Option<T>: None is the empty sequence, Some(x) is <<x>>
None == <<>>
Some(x) == <<x>>

\* unwrap_or that turns None into all_checks
unwrap_or_all_checks(opt, default) == IF opt = None THEN all_checks ELSE opt[1]

\* Option::unwrap_or
unwrap_or(opt, default) == IF opt = None THEN default ELSE opt[1]

(***************************************************************************)
(* The inputs of the model                                                 *)
(***************************************************************************)
\* the largest epocs argument
MaxEpocs == 2

\* the layer sizes of the networks
SizesSet == {<<1, 1>>, <<2, 1>>, <<1, 2>>, <<1, 1, 1>>, <<2, 2, 1>>, <<1, 2, 2>>}

\* what the random initializer may draw, one sequence per seed: the n-th
\* draw of a run is the n-th element (cyclically)
Draws ==
  << <<10, 20, 30, 40, 50, 60, 70, 80, 90, 110, 120, 130, 140>>,
     <<50, -50, 30, -70, 20, -10, 60, -40, 80, -20, 90, -60, 40>>,
     <<0, 0, 0, 0, 0, 0, 0, 0, 0, 0, 0, 0, 0>>,
     <<400, -400, 400, 300, -300, 400, 400, -400, 300, 400, -300, 400, 400>> >>

Seeds == 1..Len(Draws)

\* hundredths, as grid values
Pct(p) == p * (Unit \div 100)

Draw(seed, n) == Pct(Draws[seed][((n - 1) % Len(Draws[seed])) + 1])

\* the number of elements of sizes_[from + 1 .. to] (zero-based from, to exclusive)
RECURSIVE SumSizes(_, _, _)
SumSizes(sizes_, from, to) ==
  IF from >= to THEN 0 ELSE sizes_[from + 1] + SumSizes(sizes_, from + 1, to)

RECURSIVE SumShapes(_, _, _)
\* the number of weights of layers from..to-1
SumShapes(sizes_, from, to) ==
  IF from >= to THEN 0
  ELSE sizes_[from + 1] * sizes_[from - 1 + 1] + SumShapes(sizes_, from + 1, to)

\* new that gives the weight matrix of layer l sizes[l-1] rows and sizes[l]
\* columns
new_with_shapes_swapped(sizes_, seed) ==
  LET nb == SumSizes(sizes_, 1, Len(sizes_))
  IN SimpleNeuralNetwork(
       sizes_,
       [l \in 1..(Len(sizes_) - 1) |->
          Mat(sizes_[l - 1 + 1], sizes_[l + 1],
              [k \in 1..(sizes_[l + 1] * sizes_[l - 1 + 1]) |->
                 Draw(seed, nb + SumShapes(sizes_, 1, l) + k)])],
       [i \in 1..(Len(sizes_) - 1) |->
          [j \in 1..sizes_[i + 1] |-> Draw(seed, SumSizes(sizes_, 1, i) + j)]])

\* SimpleNeuralNetwork::new: the biases are drawn first, layer by layer, then
\* the weight matrices
new(sizes_, seed) ==
  LET nb == SumSizes(sizes_, 1, Len(sizes_))
      biases_ == [i \in 1..(Len(sizes_) - 1) |->
                    [j \in 1..sizes_[i + 1] |-> Draw(seed, SumSizes(sizes_, 1, i) + j)]]
      weights_ == [l \in 1..(Len(sizes_) - 1) |->
                     Mat(sizes_[l + 1], sizes_[l - 1 + 1],
                         [k \in 1..(sizes_[l + 1] * sizes_[l - 1 + 1]) |->
                            Draw(seed, nb + SumShapes(sizes_, 1, l) + k)])]
  IN SimpleNeuralNetwork(sizes_, weights_, biases_)

\* the values of the examples' inputs and desired outputs
InputValues == <<-200, 200, 100, 0>>
DesiredValues == <<0, 100, 100, 0>>

\* example number e for a network of these sizes
Example(sizes_, e) ==
  TrainingDataPoint([j \in 1..sizes_[1] |-> Pct(InputValues[((e + j - 2) % 4) + 1])],
                    [j \in 1..sizes_[Len(sizes_)] |-> Pct(DesiredValues[((e + 2 * j - 3) % 4) + 1])])

\* the training sets: empty, one example, two, two others
DataSets(sizes_) ==
  { <<>>,
    <<Example(sizes_, 1)>>,
    <<Example(sizes_, 1), Example(sizes_, 2)>>,
    <<Example(sizes_, 3), Example(sizes_, 2)>> }

LearningRates == {4 * Unit, 30 * Unit}

CheckOptionsArgs ==
  {None} \cup {Some(CheckOptions(g, c)) : g \in BOOLEAN, c \in BOOLEAN}

(***************************************************************************)
(* train, as a state machine                                               *)
(***************************************************************************)
VARIABLES
  sizes, weights, biases,       \* self
  training_data, epocs, learning_rate, check_options,   \* the arguments of train
  pc,                           \* the step train executes next
  initial_cost, epocs_count, prev_cost, per_tr_ex_data, gradients, final_cost,
  acg,                          \* the locals of approximate_cost_gradient, and its result
  panic,                        \* the panic that ended train, if one did
  updates,                      \* history: the number of update steps executed
  costs,                        \* history: the initial cost and each cost the cost check stored
  epoch_start,                  \* history: weights and biases when the current epoch began
  call                          \* the last call of a pure method, and its result

self_vars == <<sizes, weights, biases>>
arg_vars == <<training_data, epocs, learning_rate, check_options>>
local_vars == <<initial_cost, epocs_count, prev_cost, per_tr_ex_data, gradients, final_cost>>
hist_vars == <<updates, costs, epoch_start>>
vars == <<self_vars, arg_vars, pc, local_vars, acg, panic, hist_vars, call>>

Self == SimpleNeuralNetwork(sizes, weights, biases)

Options == unwrap_or(check_options, no_checks)

NoCall == [op |-> "none", sets |-> 0]

NoAcg == [big_theta_v |-> <<>>, i |-> 0, orig_i_value |-> 0,
          cost_plus_epsilon |-> 0, cost_minus_epsilon |-> 0, gradient |-> <<>>]

\* A network, and train called on it.  The locals of train hold 0, an empty
\* sequence or an empty map until train assigns them.
Init ==
  \E sizes_ \in SizesSet, seed \in Seeds :
    LET nn == new(sizes_, seed)
    IN /\ sizes = nn.sizes
       /\ weights = nn.weights
       /\ biases = nn.biases
       /\ training_data \in DataSets(sizes_)
       /\ epocs \in 0..MaxEpocs
       /\ learning_rate \in LearningRates
       /\ check_options \in CheckOptionsArgs
       /\ pc = "init"
       /\ initial_cost = 0
       /\ epocs_count = 0
       /\ prev_cost = 0
       /\ per_tr_ex_data = <<>>
       /\ gradients = EmptyMap
       /\ final_cost = 0
       /\ acg = NoAcg
       /\ panic = None
       /\ updates = 0
       /\ costs = <<>>
       /\ epoch_start = <<nn.weights, nn.biases>>
       /\ call = NoCall

\* LoopHead with the test off by one: the loop stops one epoch early
LoopHeadOffByOne(count) == IF count + 1 >= epocs THEN "done" ELSE "collect"

\* LoopHead that also stops once the cost has reached zero
LoopHeadConverged(count) ==
  IF count >= epocs \/ cost_training_set(Self, training_data) = 0 THEN "done" ELSE "collect"

\* the test at the head of the loop, with epocs_count as given
LoopHead(count) == IF count >= epocs THEN "done" ELSE "collect"

\* lines 436-450: the initial cost, and the locals of the loop
InitialCost ==
  /\ pc = "init"
  /\ LET c == cost_training_set(Self, training_data)
     IN /\ initial_cost' = c
        /\ prev_cost' = c
        /\ costs' = <<c>>
  /\ epocs_count' = 0
  /\ pc' = LoopHead(0)
  /\ UNCHANGED <<self_vars, arg_vars, per_tr_ex_data, gradients, final_cost, acg,
                 panic, updates, epoch_start, call>>

\* lines 458-464: one (intermediates, errors) pair per example, in order
CollectAll(nn, training_data_) ==
  [k \in 1..Len(training_data_) |->
     LET intermediates == feed_forward_capturing(nn, training_data_[k].input_v)
         errors == backprop(nn, training_data_[k].desired_output_v, intermediates)
     IN <<intermediates, errors>>]

\* ForwardBackwardCollect that pushes onto the list of the epoch before
ForwardBackwardCollectAppending ==
  /\ pc = "collect"
  /\ per_tr_ex_data' = per_tr_ex_data \o CollectAll(Self, training_data)
  /\ epoch_start' = <<weights, biases>>
  /\ pc' = "aggregate"
  /\ UNCHANGED <<self_vars, arg_vars, initial_cost, epocs_count, prev_cost, gradients,
                 final_cost, acg, panic, updates, costs, call>>

ForwardBackwardCollect ==
  /\ pc = "collect"
  /\ per_tr_ex_data' = CollectAll(Self, training_data)
  /\ epoch_start' = <<weights, biases>>
  /\ pc' = "aggregate"
  /\ UNCHANGED <<self_vars, arg_vars, initial_cost, epocs_count, prev_cost, gradients,
                 final_cost, acg, panic, updates, costs, call>>

\* line 467
Aggregate ==
  /\ pc = "aggregate"
  /\ gradients' = compute_gradients(Self, per_tr_ex_data)
  /\ pc' = IF Options.gradient_checking THEN "gradcheck" ELSE "update"
  /\ UNCHANGED <<self_vars, arg_vars, initial_cost, epocs_count, prev_cost,
                 per_tr_ex_data, final_cost, acg, panic, hist_vars, call>>

\* big_theta_v[i] = value, zero-based i
SetAt(v, i, value) == [v EXCEPT ![i + 1] = value]

\* lines 301-304: approximate_cost_gradient is entered
ApproxBegin ==
  /\ pc = "gradcheck"
  /\ LET theta == unroll_weights_and_biases(Self)
     IN /\ acg' = [NoAcg EXCEPT !.big_theta_v = theta]
        /\ pc' = IF 0 < Len(theta) THEN "acg_plus" ELSE "compare"
  /\ UNCHANGED <<self_vars, arg_vars, local_vars, panic, hist_vars, call>>

\* ApproxPlus that perturbs the network itself instead of the unrolled copy
ApproxPlusInPlace ==
  /\ pc = "acg_plus"
  /\ LET orig == acg.big_theta_v[acg.i + 1]
         theta == SetAt(acg.big_theta_v, acg.i, FAdd(orig, GRADIENT_CHECK_EPSILON))
         wbs == reshape_weights_and_biases(Self, theta)
     IN /\ acg' = [acg EXCEPT !.orig_i_value = orig,
                              !.big_theta_v = theta,
                              !.cost_plus_epsilon = cost_reshaped_set(Self, training_data, wbs)]
        /\ weights' = [l \in 1..Len(weights) |-> wbs[l][1]]
        /\ biases' = [l \in 1..Len(biases) |-> wbs[l][2]]
  /\ pc' = "acg_minus"
  /\ UNCHANGED <<sizes, arg_vars, local_vars, panic, hist_vars, call>>

\* lines 305-309
ApproxPlus ==
  /\ pc = "acg_plus"
  /\ LET orig == acg.big_theta_v[acg.i + 1]
         theta == SetAt(acg.big_theta_v, acg.i, FAdd(orig, GRADIENT_CHECK_EPSILON))
         wbs == reshape_weights_and_biases(Self, theta)
     IN acg' = [acg EXCEPT !.orig_i_value = orig,
                           !.big_theta_v = theta,
                           !.cost_plus_epsilon = cost_reshaped_set(Self, training_data, wbs)]
  /\ pc' = "acg_minus"
  /\ UNCHANGED <<self_vars, arg_vars, local_vars, panic, hist_vars, call>>

\* lines 311-313
ApproxMinus ==
  /\ pc = "acg_minus"
  /\ LET theta == SetAt(acg.big_theta_v, acg.i,
                        FSub(acg.orig_i_value, GRADIENT_CHECK_EPSILON))
         wbs == reshape_weights_and_biases(Self, theta)
     IN acg' = [acg EXCEPT !.big_theta_v = theta,
                           !.cost_minus_epsilon = cost_reshaped_set(Self, training_data, wbs)]
  /\ pc' = "acg_restore"
  /\ UNCHANGED <<self_vars, arg_vars, local_vars, panic, hist_vars, call>>

\* ApproxRestore that leaves big_theta_v[i] at its value minus epsilon
ApproxRestoreNoRestore ==
  /\ pc = "acg_restore"
  /\ acg' = [acg EXCEPT !.gradient =
                          Append(acg.gradient,
                                 FDiv(FSub(acg.cost_plus_epsilon, acg.cost_minus_epsilon),
                                      GRADIENT_CHECK_TWICE_EPSILON)),
                        !.i = acg.i + 1]
  /\ pc' = IF acg.i + 1 < Len(acg.big_theta_v) THEN "acg_plus" ELSE "compare"
  /\ UNCHANGED <<self_vars, arg_vars, local_vars, panic, hist_vars, call>>

\* lines 315-320, and the loop's step to the next index
ApproxRestore ==
  /\ pc = "acg_restore"
  /\ LET approx_cost_fn_partial_derivative ==
           FDiv(FSub(acg.cost_plus_epsilon, acg.cost_minus_epsilon),
                GRADIENT_CHECK_TWICE_EPSILON)
     IN acg' = [acg EXCEPT !.big_theta_v = SetAt(acg.big_theta_v, acg.i, acg.orig_i_value),
                           !.gradient = Append(acg.gradient, approx_cost_fn_partial_derivative),
                           !.i = acg.i + 1]
  /\ pc' = IF acg.i + 1 < Len(acg.big_theta_v) THEN "acg_plus" ELSE "compare"
  /\ UNCHANGED <<self_vars, arg_vars, local_vars, panic, hist_vars, call>>

\* line 475: ed
GradientDistance == euclidian_distance(acg.gradient, unroll_gradients(Self, gradients))

\* lines 482-483: normalized_distance
NormalizedDistance ==
  FDiv(euclidian_distance(acg.gradient, unroll_gradients(Self, gradients)),
       FAdd(euclidian_length(acg.gradient),
            euclidian_length(unroll_gradients(Self, gradients))))

\* GradientCheckFails without the test of the normalized distance
GradientCheckFirstTestOnly == FGt(GradientDistance, GRADIENT_CHECK_EPSILON_SQUARED)

\* lines 478-487: whether one of the two tests panics
GradientCheckFails ==
  \/ FGt(GradientDistance, GRADIENT_CHECK_EPSILON_SQUARED)
  \/ FGt(NormalizedDistance, GRADIENT_CHECK_EPSILON_SQUARED)

\* UpdateLayer that subtracts the gradients as they are, not multiplied by
\* the learning rate
UpdateLayerUnscaled(st, layer_index, learning_rate_) ==
  [weights |-> [st.weights EXCEPT ![layer_index - 1 + 1] =
                  MSub(@, st.gradients[layer_index][1])],
   biases |-> [st.biases EXCEPT ![layer_index - 1 + 1] =
                 VMinus(@, st.gradients[layer_index][2])],
   gradients |-> st.gradients]

\* lines 494-506: the closure of the update, for one entry of the map.  st is
\* [weights, biases, gradients].
UpdateLayer(st, layer_index, learning_rate_) ==
  LET weights_grad == MMulScalar(st.gradients[layer_index][1], learning_rate_)
      bias_grad == VMulScalar(st.gradients[layer_index][2], learning_rate_)
      i_weights_and_biases == layer_index - 1
  IN [weights |-> [st.weights EXCEPT ![i_weights_and_biases + 1] = MSub(@, weights_grad)],
      biases |-> [st.biases EXCEPT ![i_weights_and_biases + 1] = VMinus(@, bias_grad)],
      gradients |-> [st.gradients EXCEPT ![layer_index] = <<weights_grad, bias_grad>>]]

RECURSIVE UpdateInOrder(_, _, _)
\* iter_mut().for_each over the entries in the given order of keys
UpdateInOrder(st, order, learning_rate_) ==
  IF order = <<>> THEN st
  ELSE UpdateInOrder(UpdateLayer(st, Head(order), learning_rate_), Tail(order),
                     learning_rate_)

\* the orders in which a HashMap with these keys may be iterated
IterationOrders(keys) ==
  {order \in [1..Cardinality(keys) -> keys] :
     \A a, b \in 1..Cardinality(keys) : a # b => order[a] # order[b]}

\* FailedGradientCheck coming after the update: the gradients are
\* subtracted before the comparison makes train panic
FailedGradientCheckAfterUpdate ==
  /\ pc = "compare"
  /\ GradientCheckFails
  /\ \E order \in IterationOrders(DOMAIN gradients) :
       LET st == UpdateInOrder([weights |-> weights, biases |-> biases,
                                gradients |-> gradients], order, learning_rate)
       IN /\ weights' = st.weights
          /\ biases' = st.biases
          /\ gradients' = st.gradients
  /\ updates' = updates + 1
  /\ panic' = Some([message |-> "failed gradient check"])
  /\ pc' = "panicked"
  /\ UNCHANGED <<sizes, arg_vars, initial_cost, epocs_count, prev_cost, per_tr_ex_data,
                 final_cost, acg, costs, epoch_start, call>>

\* lines 478-480, 485-487
FailedGradientCheck ==
  /\ pc = "compare"
  /\ GradientCheckFails
  /\ panic' = Some([message |-> "failed gradient check"])
  /\ pc' = "panicked"
  /\ UNCHANGED <<self_vars, arg_vars, local_vars, acg, hist_vars, call>>

\* line 488: both tests passed
GradientCheckPassed ==
  /\ pc = "compare"
  /\ ~GradientCheckFails
  /\ pc' = "update"
  /\ UNCHANGED <<self_vars, arg_vars, local_vars, acg, panic, hist_vars, call>>

\* lines 490-507, then line 509 or lines 520 and 453
Update ==
  /\ pc = "update"
  /\ \E order \in IterationOrders(DOMAIN gradients) :
       LET st == UpdateInOrder([weights |-> weights, biases |-> biases,
                                gradients |-> gradients], order, learning_rate)
       IN /\ weights' = st.weights
          /\ biases' = st.biases
          /\ gradients' = st.gradients
  /\ updates' = updates + 1
  /\ IF Options.cost_decreasing_check
     THEN /\ pc' = "costcheck"
          /\ epocs_count' = epocs_count
     ELSE /\ pc' = LoopHead(epocs_count + 1)
          /\ epocs_count' = epocs_count + 1
  /\ UNCHANGED <<sizes, arg_vars, initial_cost, prev_cost, per_tr_ex_data, final_cost,
                 acg, panic, costs, epoch_start, call>>

\* CostIncreased that reports the epoch counted from one
CostIncreasedCountingFromOne ==
  /\ pc = "costcheck"
  /\ LET cost == cost_training_set(Self, training_data)
     IN /\ FGt(cost, prev_cost)
        /\ panic' = Some([message |-> "cost increased", from |-> prev_cost,
                          to |-> cost, epoc |-> epocs_count + 1])
  /\ pc' = "panicked"
  /\ UNCHANGED <<self_vars, arg_vars, local_vars, acg, hist_vars, call>>

\* CostIncreased that has stored the new cost before comparing it
CostIncreasedStoringCost ==
  /\ pc = "costcheck"
  /\ LET cost == cost_training_set(Self, training_data)
     IN /\ FGt(cost, prev_cost)
        /\ prev_cost' = cost
        /\ panic' = Some([message |-> "cost increased", from |-> prev_cost,
                          to |-> cost, epoc |-> epocs_count])
  /\ pc' = "panicked"
  /\ UNCHANGED <<self_vars, arg_vars, initial_cost, epocs_count, per_tr_ex_data,
                 gradients, final_cost, acg, hist_vars, call>>

\* lines 510-516
CostIncreased ==
  /\ pc = "costcheck"
  /\ LET cost == cost_training_set(Self, training_data)
     IN /\ FGt(cost, prev_cost)
        /\ panic' = Some([message |-> "cost increased", from |-> prev_cost,
                          to |-> cost, epoc |-> epocs_count])
  /\ pc' = "panicked"
  /\ UNCHANGED <<self_vars, arg_vars, local_vars, acg, hist_vars, call>>

\* CostChecked that keeps comparing with the cost it first stored
CostCheckedNoStore ==
  /\ pc = "costcheck"
  /\ LET cost == cost_training_set(Self, training_data)
     IN /\ ~FGt(cost, prev_cost)
        /\ costs' = Append(costs, cost)
  /\ epocs_count' = epocs_count + 1
  /\ pc' = LoopHead(epocs_count + 1)
  /\ UNCHANGED <<self_vars, arg_vars, initial_cost, prev_cost, per_tr_ex_data, gradients,
                 final_cost, acg, panic, updates, epoch_start, call>>

\* lines 510-511, 517, then lines 520 and 453
CostChecked ==
  /\ pc = "costcheck"
  /\ LET cost == cost_training_set(Self, training_data)
     IN /\ ~FGt(cost, prev_cost)
        /\ prev_cost' = cost
        /\ costs' = Append(costs, cost)
  /\ epocs_count' = epocs_count + 1
  /\ pc' = LoopHead(epocs_count + 1)
  /\ UNCHANGED <<self_vars, arg_vars, initial_cost, per_tr_ex_data, gradients,
                 final_cost, acg, panic, updates, epoch_start, call>>

\* lines 525-529
FinalCost ==
  /\ pc = "done"
  /\ final_cost' = cost_training_set(Self, training_data)
  /\ pc' = "returned"
  /\ UNCHANGED <<self_vars, arg_vars, initial_cost, epocs_count, prev_cost,
                 per_tr_ex_data, gradients, acg, panic, hist_vars, call>>

Next ==
  \/ InitialCost
  \/ ForwardBackwardCollect
  \/ Aggregate
  \/ ApproxBegin
  \/ ApproxPlus
  \/ ApproxMinus
  \/ ApproxRestore
  \/ FailedGradientCheck
  \/ GradientCheckPassed
  \/ Update
  \/ CostIncreased
  \/ CostChecked
  \/ FinalCost

Spec == Init /\ [][Next]_vars

(***************************************************************************)
(* The methods called on their own, as the tests call them: a network is   *)
(* built, some of its weights and biases are overwritten with set(), and   *)
(* one method is called on it.                                             *)
(***************************************************************************)
\* the largest number of set() calls on a network
MaxSets == 1

\* the values set() writes
SetValues == {Pct(-35), Pct(250)}

\* the inputs fed to a network of these sizes
Inputs(sizes_) == {Example(sizes_, e).input_v : e \in 1..3}

CallInit ==
  \E sizes_ \in SizesSet, seed \in Seeds :
    LET nn == new(sizes_, seed)
    IN /\ sizes = nn.sizes
       /\ weights = nn.weights
       /\ biases = nn.biases
       /\ training_data \in DataSets(sizes_)
       /\ epocs = 0
       /\ learning_rate = 0
       /\ check_options = None
       /\ pc = "test"
       /\ initial_cost = 0
       /\ epocs_count = 0
       /\ prev_cost = 0
       /\ per_tr_ex_data = <<>>
       /\ gradients = EmptyMap
       /\ final_cost = 0
       /\ acg = NoAcg
       /\ panic = None
       /\ updates = 0
       /\ costs = <<>>
       /\ epoch_start = <<nn.weights, nn.biases>>
       /\ call = NoCall

train_vars == <<arg_vars, pc, local_vars, acg, panic, hist_vars>>

\* Matrix::set(r, c, value) on the weights of layer l (lines 1265-1276)
SetWeight ==
  /\ pc = "test"
  /\ call.op = "none"
  /\ call.sets < MaxSets
  /\ \E l \in 1..(Len(sizes) - 1), value \in SetValues :
       \E r \in 0..(weights[l - 1 + 1].rows - 1), c \in 0..(weights[l - 1 + 1].columns - 1) :
         weights' = [weights EXCEPT ![l - 1 + 1].data[r * weights[l - 1 + 1].columns + c + 1] = value]
  /\ call' = [call EXCEPT !.sets = @ + 1]
  /\ UNCHANGED <<sizes, biases, train_vars>>

\* ColumnVector::set(j, value) on the biases of layer l (lines 1280-1283)
SetBias ==
  /\ pc = "test"
  /\ call.op = "none"
  /\ call.sets < MaxSets
  /\ \E l \in 1..(Len(sizes) - 1), value \in SetValues :
       \E j \in 0..(Len(biases[l - 1 + 1]) - 1) :
         biases' = [biases EXCEPT ![l - 1 + 1][j + 1] = value]
  /\ call' = [call EXCEPT !.sets = @ + 1]
  /\ UNCHANGED <<sizes, weights, train_vars>>

\* line 1300
CallUnroll ==
  /\ pc = "test"
  /\ call.op = "none"
  /\ call' = [op |-> "unroll_weights_and_biases",
              result |-> unroll_weights_and_biases(Self)]
  /\ UNCHANGED <<self_vars, train_vars>>

\* lines 956-957: the network is unrolled and the result reshaped
CallReshapeOfUnroll ==
  /\ pc = "test"
  /\ call.op = "none"
  /\ LET big_theta_v == unroll_weights_and_biases(Self)
     IN call' = [op |-> "reshape_weights_and_biases",
                 big_theta_v |-> big_theta_v,
                 result |-> reshape_weights_and_biases(Self, big_theta_v)]
  /\ UNCHANGED <<self_vars, train_vars>>

\* lines 708-716: feed_forward, and ff over the reshaped unrolled parameters
CallFf ==
  /\ pc = "test"
  /\ call.op = "none"
  /\ \E inputs \in Inputs(sizes) :
       LET outputs == feed_forward(Self, inputs)
           big_theta_v == unroll_weights_and_biases(Self)
           reshaped == reshape_weights_and_biases(Self, big_theta_v)
       IN call' = [op |-> "ff", inputs |-> inputs, outputs |-> outputs,
                   result |-> ff(inputs, sizes, reshaped)]
  /\ UNCHANGED <<self_vars, train_vars>>

\* lines 948-960: cost_training_set, and cost_reshaped_set over the reshaped
\* unrolled parameters
CallCostReshapedSet ==
  /\ pc = "test"
  /\ call.op = "none"
  /\ LET c == cost_training_set(Self, training_data)
         big_theta_v == unroll_weights_and_biases(Self)
         reshaped == reshape_weights_and_biases(Self, big_theta_v)
     IN call' = [op |-> "cost_reshaped_set", c |-> c,
                 result |-> cost_reshaped_set(Self, training_data, reshaped)]
  /\ UNCHANGED <<self_vars, train_vars>>

\* lines 1320-1352: a gradient map built by hand, its n-th value (in the
\* order the test sets them) being n tenths
TestGradients(sizes_) ==
  [l \in 1..(Len(sizes_) - 1) |->
     LET first == SumShapes(sizes_, 1, l) + SumSizes(sizes_, 1, l)
         n_weights == sizes_[l + 1] * sizes_[l - 1 + 1]
     IN <<Mat(sizes_[l + 1], sizes_[l - 1 + 1],
              [k \in 1..n_weights |-> Pct(10 * (first + k))]),
          [j \in 1..sizes_[l + 1] |-> Pct(10 * (first + n_weights + j))]>>]

\* the gradient maps unroll_gradients is called with: the one built by hand,
\* and the one train computes for the training set (lines 458-469)
GradientMaps ==
  {TestGradients(sizes)} \cup
    {compute_gradients(Self, per_tr_ex_data_) :
       per_tr_ex_data_ \in IF training_data = <<>> THEN {}
                           ELSE {CollectAll(Self, training_data)}}

\* line 1354
CallUnrollGradients ==
  /\ pc = "test"
  /\ call.op = "none"
  /\ \E gradients_ \in GradientMaps :
       call' = [op |-> "unroll_gradients", gradients |-> gradients_,
                result |-> unroll_gradients(Self, gradients_)]
  /\ UNCHANGED <<self_vars, train_vars>>

\* lines 1369-1372: a flat sequence first, first + 1, ... as long as the
\* network has parameters
TestTheta(sizes_, first) ==
  [k \in 1..(SumShapes(sizes_, 1, Len(sizes_)) + SumSizes(sizes_, 1, Len(sizes_))) |->
     AsF64(first + k - 1)]

\* line 1374
CallReshape ==
  /\ pc = "test"
  /\ call.op = "none"
  /\ \E first \in {1, -3} :
       call' = [op |-> "test_reshape_weights_and_biases",
                big_theta_v |-> TestTheta(sizes, first),
                result |-> reshape_weights_and_biases(Self, TestTheta(sizes, first))]
  /\ UNCHANGED <<self_vars, train_vars>>

\* lines 459-460: the forward pass of an example, and backprop on what it
\* captured
CallBackprop ==
  /\ pc = "test"
  /\ call.op = "none"
  /\ \E k \in 1..Len(training_data) :
       \E intermediates \in {feed_forward_capturing(Self, training_data[k].input_v)} :
         call' = [op |-> "backprop",
                  desired_output_v |-> training_data[k].desired_output_v,
                  intermediates |-> intermediates,
                  result |-> backprop(Self, training_data[k].desired_output_v,
                                      intermediates)]
  /\ UNCHANGED <<self_vars, train_vars>>

\* lines 458-467: the pairs of every example, and compute_gradients on them
CallComputeGradients ==
  /\ pc = "test"
  /\ call.op = "none"
  /\ \E per_tr_ex_data_ \in {CollectAll(Self, training_data)} :
       call' = [op |-> "compute_gradients", per_tr_ex_data |-> per_tr_ex_data_,
                result |-> compute_gradients(Self, per_tr_ex_data_)]
  /\ UNCHANGED <<self_vars, train_vars>>

\* lines 841 and 773: feed_forward_capturing, and feed_forward for the same
\* inputs
CallFeedForwardCapturing ==
  /\ pc = "test"
  /\ call.op = "none"
  /\ \E inputs \in Inputs(sizes) :
       call' = [op |-> "feed_forward_capturing", inputs |-> inputs,
                outputs |-> feed_forward(Self, inputs),
                result |-> feed_forward_capturing(Self, inputs)]
  /\ UNCHANGED <<self_vars, train_vars>>

\* v cut or padded to n elements
Resized(v, n) == [j \in 1..n |-> IF j <= Len(v) THEN v[j] ELSE Pct(50)]

\* a vector of the right length, one element shorter and one element longer
Lengths(v) == {v, Resized(v, Len(v) - 1), Resized(v, Len(v) + 1)}

\* line 708: feed_forward, with inputs of the right and of a wrong length
CallFeedForward ==
  /\ pc = "test"
  /\ call.op = "none"
  /\ \E inputs \in UNION {Lengths(v) : v \in Inputs(sizes)} :
       call' = [op |-> "feed_forward", inputs |-> inputs,
                result |-> feed_forward_call(Self, inputs)]
  /\ UNCHANGED <<self_vars, train_vars>>

\* line 881: cost_single_tr_ex, with examples whose vectors have the right
\* or a wrong length
CallCostSingleTrEx ==
  /\ pc = "test"
  /\ call.op = "none"
  /\ \E e \in {2} :
       \E input_v \in Lengths(Example(sizes, e).input_v),
          desired_output_v \in Lengths(Example(sizes, e).desired_output_v) :
         call' = [op |-> "cost_single_tr_ex",
                  tr_ex |-> TrainingDataPoint(input_v, desired_output_v),
                  result |-> cost_single_tr_ex_call(
                               Self, TrainingDataPoint(input_v, desired_output_v))]
  /\ UNCHANGED <<self_vars, train_vars>>

\* lines 860-868: the vectors quadratic_cost is called with, the test's and
\* some of other lengths
CostVectors ==
  {<<4 * Unit, 4 * Unit>>, <<2 * Unit, 2 * Unit>>, <<Unit \div 2, 4 * Unit>>,
   <<2 * Unit>>}

\* lines 864 and 868: quadratic_cost on two vectors
CallQuadraticCost ==
  /\ pc = "test"
  /\ call.op = "none"
  /\ \E desired_v \in CostVectors, actual_v \in CostVectors :
       call' = [op |-> "quadratic_cost", desired_v |-> desired_v,
                actual_v |-> actual_v,
                result |-> quadratic_cost_call(desired_v, actual_v)]
  /\ UNCHANGED <<self_vars, train_vars>>

\* lines 945-948: cost_training_set, and cost_single_tr_ex on each example
CallCostTrainingSet ==
  /\ pc = "test"
  /\ call.op = "none"
  /\ call' = [op |-> "cost_training_set",
              result |-> cost_training_set(Self, training_data),
              singles |-> [k \in 1..Len(training_data) |->
                             cost_single_tr_ex(Self, training_data[k])]]
  /\ UNCHANGED <<self_vars, train_vars>>

\* lines 1241-1246: get_weight_matrix_shape for a layer of the network, the
\* input layer included
CallGetWeightMatrixShape ==
  /\ pc = "test"
  /\ call.op = "none"
  /\ \E layer_index \in 0..(num_layers(Self) - 1) :
       call' = [op |-> "get_weight_matrix_shape", layer_index |-> layer_index,
                result |-> get_weight_matrix_shape_call(Self, layer_index)]
  /\ UNCHANGED <<self_vars, train_vars>>

CallNext ==
  \/ SetWeight
  \/ SetBias
  \/ CallUnroll
  \/ CallReshapeOfUnroll
  \/ CallFf
  \/ CallCostReshapedSet
  \/ CallUnrollGradients
  \/ CallReshape
  \/ CallBackprop
  \/ CallComputeGradients
  \/ CallFeedForwardCapturing
  \/ CallFeedForward
  \/ CallCostSingleTrEx
  \/ CallQuadraticCost
  \/ CallCostTrainingSet
  \/ CallGetWeightMatrixShape

CallSpec == CallInit /\ [][CallNext]_vars

(***************************************************************************)
(* The claims                                                              *)
(***************************************************************************)
\* the phase of train that a step belongs to
Phase(p) ==
  CASE p = "init" -> "Init"
    [] p = "collect" -> "ForwardBackwardCollect"
    [] p = "aggregate" -> "Aggregate"
    [] p \in {"gradcheck", "acg_plus", "acg_minus", "acg_restore", "compare"} -> "GradientCheck"
    [] p = "update" -> "Update"
    [] p = "costcheck" -> "CostCheck"
    [] p = "done" -> "Done"
    [] p = "returned" -> "Returned"
    [] p = "panicked" -> "Aborted"
    [] OTHER -> "Test"

\* the step ends an epoch: the next epoch starts, or Done when none is left
EndsEpoch ==
  /\ epocs_count' = epocs_count + 1
  /\ Phase(pc') = IF epocs_count + 1 < epocs THEN "ForwardBackwardCollect" ELSE "Done"

EpochSteps == 6 + 3 * Len(unroll_weights_and_biases(Self))

\* the steps train has left at most: those of the current epoch, those of the
\* epochs after it, and the final cost
StepsLeft ==
  LET in_epoch ==
        CASE pc = "collect" -> EpochSteps
          [] pc = "aggregate" -> EpochSteps - 1
          [] pc = "gradcheck" -> EpochSteps - 2
          [] pc = "acg_plus" -> EpochSteps - 3 - 3 * acg.i
          [] pc = "acg_minus" -> EpochSteps - 4 - 3 * acg.i
          [] pc = "acg_restore" -> EpochSteps - 5 - 3 * acg.i
          [] pc = "compare" -> 3
          [] pc = "update" -> 2
          [] pc = "costcheck" -> 1
          [] OTHER -> 0
  IN CASE pc = "init" -> epocs * EpochSteps + 2
       [] pc \in {"returned", "panicked", "test"} -> 0
       [] pc = "done" -> 1
       [] OTHER -> (epocs - epocs_count - 1) * EpochSteps + in_epoch + 1

\* C2: every run of train ends (each step lowers the number of steps left,
\* which is never negative, and pc is always at a step of train or at one of
\* its two ends), and a run that returns has executed exactly epocs update
\* steps (epocs_count = epocs), whatever the costs were; with epocs = 0 it
\* has executed none and the weights and biases are those train was called
\* with.
C2_ExactlyEpocsUpdates ==
  /\ [][StepsLeft' < StepsLeft]_vars
  /\ [](StepsLeft >= 0)
  /\ [](pc \in {"init", "collect", "aggregate", "gradcheck", "acg_plus", "acg_minus",
                "acg_restore", "compare", "update", "costcheck", "done",
                "returned", "panicked"})
  /\ [](pc \notin {"returned", "panicked"} => StepsLeft > 0)
  /\ [](pc = "returned" => updates = epocs /\ epocs_count = epocs)
  /\ [](pc = "returned" /\ epocs = 0 => updates = 0 /\ <<weights, biases>> = epoch_start)

\* train has returned after two updates although the cost was zero from the
\* start
C2_Witness ==
  /\ pc = "returned"
  /\ epocs = 2
  /\ updates = 2
  /\ training_data # <<>>
  /\ initial_cost = 0
  /\ final_cost = 0

\* C3: a step changes the weights or biases only if it is the update step,
\* and no step changes sizes; there is one update step per epoch (the
\* number of updates equals epocs_count before it and is one more after it),
\* and when it runs the gradients are those compute_gradients returns for
\* the pairs of every example of the training set.
C3_OnlyUpdateMutates ==
  [][/\ (<<weights, biases>>' # <<weights, biases>> => pc = "update")
     /\ sizes' = sizes
     /\ IF pc = "update"
        THEN /\ updates = epocs_count
             /\ updates' = updates + 1
             /\ Len(per_tr_ex_data) = Len(training_data)
             /\ per_tr_ex_data = CollectAll(Self, training_data)
             /\ gradients = compute_gradients(Self, per_tr_ex_data)
        ELSE updates' = updates
    ]_vars

\* the second epoch's update is about to run, after the collect, aggregate
\* and gradient-check steps of that epoch, and the parameters are still those
\* of the epoch's start, which differ from those train was called with
C3_Witness ==
  /\ pc = "update"
  /\ epocs_count = 1
  /\ Options.gradient_checking
  /\ Len(training_data) = 2
  /\ Len(acg.gradient) = Len(unroll_weights_and_biases(Self))
  /\ <<weights, biases>> = epoch_start
  /\ \E seed \in Seeds : /\ new(sizes, seed).weights # weights
                         /\ new(sizes, seed).biases = biases

\* the layers that have weights and biases
Layers == 1..(Len(sizes) - 1)

\* C4: the update step leaves, for every layer l in 1..L-1, at index l-1 of
\* weights the old W_l minus learning_rate times the weight gradient keyed
\* l, and at index l-1 of biases the old b_l minus learning_rate times the
\* bias gradient keyed l; the map has exactly the keys 1..L-1, so that every
\* layer is changed once and by its own gradient, in whatever order the map
\* is iterated.
C4_UpdateRule ==
  [][pc = "update" =>
       /\ DOMAIN gradients = Layers
       /\ Len(weights') = Len(sizes) - 1
       /\ Len(biases') = Len(sizes) - 1
       /\ \A l \in Layers :
            /\ weights'[l - 1 + 1].rows = weights[l - 1 + 1].rows
            /\ weights'[l - 1 + 1].columns = weights[l - 1 + 1].columns
            /\ \A k \in 1..Len(weights[l - 1 + 1].data) :
                 weights'[l - 1 + 1].data[k] =
                   FSub(weights[l - 1 + 1].data[k],
                        FMul(gradients[l][1].data[k], learning_rate))
            /\ Len(biases'[l - 1 + 1]) = Len(biases[l - 1 + 1])
            /\ \A j \in 1..Len(biases[l - 1 + 1]) :
                 biases'[l - 1 + 1][j] =
                   FSub(biases[l - 1 + 1][j], FMul(gradients[l][2][j], learning_rate))
    ]_vars

\* the first update of a three-layer network has run and has changed the
\* weights and the biases of both layers
C4_Witness ==
  /\ updates = 1
  /\ Len(sizes) = 3
  /\ \A l \in Layers : /\ weights[l] # epoch_start[1][l]
                       /\ biases[l] # epoch_start[2][l]

\* C5: with the cost-decreasing check enabled, the cost check of every epoch
\* compares the cost of the updated network with the value the previous
\* epoch's check stored (the initial cost in the first epoch): train panics
\* when the new cost is greater, and otherwise the new cost becomes the
\* stored value and the epoch ends.  At Done no stored cost is greater than
\* the one before it (costs that are numbers never increase).
C5_CostNeverIncreases ==
  /\ [][pc = "costcheck" =>
          LET cost == cost_training_set(Self, training_data)
          IN /\ Options.cost_decreasing_check
             /\ updates = epocs_count + 1
             /\ Len(costs) = epocs_count + 1
             /\ costs[1] = initial_cost
             /\ prev_cost = costs[epocs_count + 1]
             /\ IF cost # NaN /\ prev_cost # NaN /\ cost > prev_cost
                THEN /\ pc' = "panicked"
                     /\ panic' # None
                     /\ prev_cost' = prev_cost
                ELSE /\ pc' \in {"collect", "done"}
                     /\ panic' = None
                     /\ prev_cost' = cost
                     /\ costs' = Append(costs, cost)
      ]_vars
  /\ [](pc \in {"done", "returned"} /\ Options.cost_decreasing_check =>
          /\ Len(costs) = epocs + 1
          /\ \A k \in 1..epocs :
               /\ ~FGt(costs[k + 1], costs[k])
               /\ (costs[k] # NaN /\ costs[k + 1] # NaN => costs[k + 1] <= costs[k]))

\* train has returned after two epochs with the check enabled, and the cost
\* fell in each of them
C5_Witness ==
  /\ pc = "returned"
  /\ Options.cost_decreasing_check
  /\ Len(costs) = 3
  /\ costs[1] # NaN
  /\ costs[3] < costs[2]
  /\ costs[2] < costs[1]

\* C6: when the two gradients are compared, with d the Euclidean distance
\* between the finite-difference gradient and the unrolled analytic
\* gradient, train panics with "failed gradient check" if d is greater than
\* epsilon squared, and also if d / (|approx| + |analytic|) is; if neither
\* is, the next step is the update.
C6_GradientCheckOutcome ==
  [][pc = "compare" =>
       LET approx_gradients_big_v == acg.gradient
           d_vec == unroll_gradients(Self, gradients)
           d == euclidian_distance(approx_gradients_big_v, d_vec)
           n == FDiv(d, FAdd(euclidian_length(approx_gradients_big_v),
                             euclidian_length(d_vec)))
           exceeds(x) == x # NaN /\ x > GRADIENT_CHECK_EPSILON_SQUARED
       IN /\ Options.gradient_checking
          /\ Len(approx_gradients_big_v) = Len(d_vec)
          /\ IF exceeds(d) \/ exceeds(n)
             THEN /\ pc' = "panicked"
                  /\ panic' = Some([message |-> "failed gradient check"])
                  /\ <<weights, biases>>' = <<weights, biases>>
             ELSE /\ pc' = "update"
                  /\ panic' = None
    ]_vars

\* train has panicked on the second test alone: the distance does not exceed
\* epsilon squared, the normalized distance does
C6_Witness ==
  /\ pc = "panicked"
  /\ panic = Some([message |-> "failed gradient check"])
  /\ ~FGt(GradientDistance, GRADIENT_CHECK_EPSILON_SQUARED)
  /\ FGt(NormalizedDistance, GRADIENT_CHECK_EPSILON_SQUARED)

\* the parameters approximate_cost_gradient starts from
OriginalTheta == unroll_weights_and_biases(Self)

\* the cost of the training set with the parameters theta
CostAt(theta) ==
  cost_reshaped_set(Self, training_data, reshape_weights_and_biases(Self, theta))

\* the original parameters with epsilon added at (zero-based) index i
ThetaPlus(i) ==
  [k \in 1..Len(OriginalTheta) |->
     IF k = i + 1 THEN FAdd(OriginalTheta[k], GRADIENT_CHECK_EPSILON) ELSE OriginalTheta[k]]

\* the original parameters with epsilon subtracted at index i
ThetaMinus(i) ==
  [k \in 1..Len(OriginalTheta) |->
     IF k = i + 1 THEN FSub(OriginalTheta[k], GRADIENT_CHECK_EPSILON) ELSE OriginalTheta[k]]

\* the positions of approximate_cost_gradient
InApprox == pc \in {"acg_plus", "acg_minus", "acg_restore"}

\* C7: in approximate_cost_gradient the first cost of index i is evaluated
\* at the original parameters with epsilon added at i and nowhere else, the
\* second with epsilon subtracted at i and nowhere else; the parameters are
\* the original ones again when the next index starts and when the function
\* returns; the indices are 0, 1, ..., |theta| - 1, each taken once (i grows
\* by one per index, and the result has one entry per index taken); the
\* entry pushed for index i is (cost_plus_i - cost_minus_i) / (2 epsilon),
\* no entry changes once pushed, and the result has length |theta|.
C7_FiniteDifferenceProtocol ==
  /\ [](pc = "acg_plus" =>
          /\ acg.i < Len(OriginalTheta)
          /\ acg.big_theta_v = OriginalTheta)
  /\ [](pc = "acg_minus" =>
          /\ acg.big_theta_v = ThetaPlus(acg.i)
          /\ acg.orig_i_value = OriginalTheta[acg.i + 1]
          /\ acg.cost_plus_epsilon = CostAt(ThetaPlus(acg.i)))
  /\ [](pc = "acg_restore" =>
          /\ acg.big_theta_v = ThetaMinus(acg.i)
          /\ acg.cost_minus_epsilon = CostAt(ThetaMinus(acg.i)))
  /\ [](InApprox \/ pc = "compare" => Len(acg.gradient) = acg.i)
  /\ [](pc = "compare" =>
          /\ Len(acg.gradient) = Len(OriginalTheta)
          /\ acg.big_theta_v = OriginalTheta)
  /\ [][/\ InApprox =>
             /\ acg'.i = IF pc = "acg_restore" THEN acg.i + 1 ELSE acg.i
             /\ pc' = CASE pc = "acg_plus" -> "acg_minus"
                        [] pc = "acg_minus" -> "acg_restore"
                        [] pc = "acg_restore" ->
                             IF acg.i + 1 < Len(OriginalTheta) THEN "acg_plus" ELSE "compare"
             /\ OriginalTheta' = OriginalTheta
        /\ pc = "acg_minus" => acg'.cost_plus_epsilon = acg.cost_plus_epsilon
        /\ pc = "acg_restore" =>
             acg'.gradient =
               Append(acg.gradient,
                      FDiv(FSub(acg.cost_plus_epsilon, acg.cost_minus_epsilon),
                           FMul(AsF64(2), GRADIENT_CHECK_EPSILON)))
        /\ pc \in {"acg_plus", "acg_minus", "compare"} => acg'.gradient = acg.gradient
      ]_vars

\* approximate_cost_gradient has returned the nine partial derivatives of a
\* network of sizes 2, 2, 1, not all of them zero
C7_Witness ==
  /\ pc = "compare"
  /\ sizes = <<2, 2, 1>>
  /\ Len(acg.gradient) = 9
  /\ acg.i = 9
  /\ \E k \in 1..9 : acg.gradient[k] # NaN /\ acg.gradient[k] # 0

\* C8: the reshaped unrolled parameters have one entry per layer l in
\* 1..L-1, whose matrix has the shape and the elements of W_l and whose
\* vector has the length and the elements of b_l.
C8_ReshapeOfUnroll ==
  call.op = "reshape_weights_and_biases" =>
    /\ DOMAIN call.result = Layers
    /\ \A l \in Layers :
         LET w == call.result[l][1]
             b == call.result[l][2]
         IN /\ w.rows = sizes[l + 1]
            /\ w.columns = sizes[l - 1 + 1]
            /\ w.rows = weights[l - 1 + 1].rows
            /\ w.columns = weights[l - 1 + 1].columns
            /\ Len(w.data) = w.rows * w.columns
            /\ \A r \in 0..(w.rows - 1), c \in 0..(w.columns - 1) :
                 MGet(w, r, c) = MGet(weights[l - 1 + 1], r, c)
            /\ Len(b) = Len(biases[l - 1 + 1])
            /\ \A j \in 1..Len(b) : b[j] = biases[l - 1 + 1][j]

\* a three-layer network, one of whose parameters was set, was unrolled and
\* reshaped
C8_Witness ==
  /\ call.op = "reshape_weights_and_biases"
  /\ Len(sizes) = 3
  /\ \E k \in 1..Len(call.big_theta_v) : call.big_theta_v[k] \in SetValues
  /\ call.result[2][1] = weights[2]
  /\ call.result[2][2] # call.result[1][2]

\* C9: ff over the reshaped unrolled parameters returns what feed_forward
\* returns for the same input, and cost_reshaped_set over them returns what
\* cost_training_set returns for the same training set (both are NaN for the
\* empty training set).
C9_ReshapedEvaluationAgrees ==
  /\ (call.op = "ff" =>
        /\ call.outputs = feed_forward(Self, call.inputs)
        /\ Len(call.result) = Len(call.outputs)
        /\ \A j \in 1..Len(call.outputs) : call.result[j] = call.outputs[j])
  /\ (call.op = "cost_reshaped_set" =>
        /\ call.c = cost_training_set(Self, training_data)
        /\ call.result = call.c)

\* the cost of a non-empty training set was computed both ways for a
\* three-layer network and is not zero
C9_Witness ==
  /\ call.op = "cost_reshaped_set"
  /\ Len(sizes) = 3
  /\ Len(training_data) = 2
  /\ call.c # NaN
  /\ call.c > 0
  /\ call.result = call.c

\* the (zero-based) index in the unrolled sequence of the first weight of
\* layer l
OffsetOfLayer(l) == SumShapes(sizes, 1, l) + SumSizes(sizes, 1, l)

\* C10: the unrolled sequence holds, for l = 1, ..., L-1 in that order, the
\* elements of W_l row by row and then the elements of b_l: element (r, c)
\* of W_l is at OffsetOfLayer(l) + r * sizes[l-1] + c, element j of b_l at
\* OffsetOfLayer(l) + sizes[l] * sizes[l-1] + j; its length is the sum over
\* l of sizes[l] * sizes[l-1] + sizes[l].
C10_UnrollOrder ==
  call.op = "unroll_weights_and_biases" =>
    /\ Len(call.result) = SumShapes(sizes, 1, Len(sizes)) + SumSizes(sizes, 1, Len(sizes))
    /\ \A l \in Layers :
         /\ \A r \in 0..(sizes[l + 1] - 1), c \in 0..(sizes[l - 1 + 1] - 1) :
              call.result[OffsetOfLayer(l) + r * sizes[l - 1 + 1] + c + 1] =
                MGet(weights[l - 1 + 1], r, c)
         /\ \A j \in 0..(sizes[l + 1] - 1) :
              call.result[OffsetOfLayer(l) + sizes[l + 1] * sizes[l - 1 + 1] + j + 1] =
                biases[l - 1 + 1][j + 1]

\* a network of sizes 1, 2, 2 was unrolled into its ten parameters after a
\* weight of the second layer was set
C10_Witness ==
  /\ call.op = "unroll_weights_and_biases"
  /\ sizes = <<1, 2, 2>>
  /\ Len(call.result) = 10
  /\ \E k \in 5..8 : call.result[k] \in SetValues

\* C11: the unrolled gradients are as long as the unrolled parameters, and
\* at every index where the unrolled parameters hold element (r, c) of W_l
\* the unrolled gradients hold element (r, c) of the weight gradient keyed
\* l, and where they hold element j of b_l, element j of the bias gradient
\* keyed l.
C11_UnrollGradientsOrder ==
  call.op = "unroll_gradients" =>
    LET theta == unroll_weights_and_biases(Self)
    IN /\ DOMAIN call.gradients = Layers
       /\ Len(call.result) = Len(theta)
       /\ \A l \in Layers :
            /\ \A r \in 0..(sizes[l + 1] - 1), c \in 0..(sizes[l - 1 + 1] - 1) :
                 LET i == OffsetOfLayer(l) + r * sizes[l - 1 + 1] + c
                 IN /\ theta[i + 1] = MGet(weights[l - 1 + 1], r, c)
                    /\ call.result[i + 1] = MGet(call.gradients[l][1], r, c)
            /\ \A j \in 0..(sizes[l + 1] - 1) :
                 LET i == OffsetOfLayer(l) + sizes[l + 1] * sizes[l - 1 + 1] + j
                 IN /\ theta[i + 1] = biases[l - 1 + 1][j + 1]
                    /\ call.result[i + 1] = call.gradients[l][2][j + 1]

\* the gradients train computes for a network of sizes 2, 2, 1 and two
\* examples were unrolled into nine values, not all of them equal
C11_Witness ==
  /\ call.op = "unroll_gradients"
  /\ sizes = <<2, 2, 1>>
  /\ Len(training_data) = 2
  /\ call.gradients = compute_gradients(Self, CollectAll(Self, training_data))
  /\ Len(call.result) = 9
  /\ \E a, b \in 1..9 : call.result[a] # call.result[b]

\* C12: for a flat sequence theta as long as the network has parameters,
\* reshape_weights_and_biases returns one entry for each key 1..L-1 and no
\* other; W_l has sizes[l] rows and sizes[l-1] columns, and its element
\* (r, c) is the element of theta at OffsetOfLayer(l) + r * sizes[l-1] + c;
\* b_l has sizes[l] elements, the j-th being the element of theta at
\* OffsetOfLayer(l) + sizes[l] * sizes[l-1] + j.  The layers' matrices and
\* vectors, put one after the other in layer order, are theta itself: every
\* element is taken once, in order.
C12_ReshapeLayout ==
  call.op = "test_reshape_weights_and_biases" =>
    LET theta == call.big_theta_v
        wbs == call.result
    IN /\ DOMAIN wbs = Layers
       /\ Cardinality(DOMAIN wbs) = Len(sizes) - 1
       /\ \A l \in Layers :
            LET w == wbs[l][1]
                b == wbs[l][2]
            IN /\ w.rows = sizes[l + 1]
               /\ w.columns = sizes[l - 1 + 1]
               /\ Len(w.data) = sizes[l + 1] * sizes[l - 1 + 1]
               /\ \A r \in 0..(w.rows - 1), c \in 0..(w.columns - 1) :
                    MGet(w, r, c) = theta[OffsetOfLayer(l) + r * sizes[l - 1 + 1] + c + 1]
               /\ Len(b) = sizes[l + 1]
               /\ \A j \in 0..(sizes[l + 1] - 1) :
                    b[j + 1] = theta[OffsetOfLayer(l) + sizes[l + 1] * sizes[l - 1 + 1] + j + 1]
       /\ OffsetOfLayer(Len(sizes)) = Len(theta)
       /\ \A l \in Layers :
            OffsetOfLayer(l + 1) =
              OffsetOfLayer(l) + Len(wbs[l][1].data) + Len(wbs[l][2])

\* the ten values 1.0, ..., 10.0 were reshaped for a network of sizes
\* 1, 2, 2: the second layer's matrix holds 5.0 to 8.0 and its biases 9.0
\* and 10.0
C12_Witness ==
  /\ call.op = "test_reshape_weights_and_biases"
  /\ sizes = <<1, 2, 2>>
  /\ call.big_theta_v[1] = AsF64(1)
  /\ call.result[2][1].data = <<AsF64(5), AsF64(6), AsF64(7), AsF64(8)>>
  /\ call.result[2][2] = <<AsF64(9), AsF64(10)>>

\* the index of the last layer
LastLayer == Len(sizes) - 1

\* C13: backprop returns a map with exactly the keys 1..L-1, the vector
\* keyed l having sizes[l] elements.  The vector of the last layer is
\* (a - desired) times sigmoid'(z), element by element, with a and z the
\* captured activations and z of that layer.  The vector of a hidden layer l
\* is, element by element, the product of sigmoid'(z_l) and of the
\* transpose of the weight matrix of layer l+1 (sizes[l+1] rows, sizes[l]
\* columns) times the vector of layer l+1, which is therefore computed
\* first.  The z captured for layer 0 is never read: the result is the same
\* without it, and holds no NaN.
C13_BackpropEquations ==
  call.op = "backprop" =>
    LET delta == call.result
        captured == call.intermediates
    IN /\ DOMAIN delta = Layers
       /\ \A l \in Layers : Len(delta[l]) = sizes[l + 1]
       /\ \A j \in 1..sizes[LastLayer + 1] :
            delta[LastLayer][j] =
              FMul(FSub(captured[LastLayer + 1].activations_vector[j],
                        call.desired_output_v[j]),
                   sigmoid_prime(captured[LastLayer + 1].z_vector[j]))
       /\ \A l \in 1..(LastLayer - 1) :
            LET w == weights[(l + 1) - 1 + 1]
            IN /\ w.rows = sizes[l + 1 + 1]
               /\ w.columns = sizes[l + 1]
               /\ \A j \in 1..sizes[l + 1] :
                    delta[l][j] =
                      FMul(FSum([i \in 1..w.rows |->
                                   FMul(MGet(w, i - 1, j - 1), delta[l + 1][i])]),
                           sigmoid_prime(captured[l + 1].z_vector[j]))
       /\ backprop(Self, call.desired_output_v,
                   [captured EXCEPT ![0 + 1].z_vector = <<>>]) = delta
       /\ \A l \in Layers : \A j \in 1..Len(delta[l]) : delta[l][j] # NaN

\* backprop has run on a network of sizes 2, 2, 1 and has found errors that
\* are not zero at the output and in the hidden layer
C13_Witness ==
  /\ call.op = "backprop"
  /\ sizes = <<2, 2, 1>>
  /\ call.result[2][1] # 0
  /\ \E j \in 1..2 : call.result[1][j] # 0
  /\ call.result[1][1] # call.result[1][2]

\* C14: for the pairs of n >= 1 examples, compute_gradients returns a map
\* with exactly the keys 1..L-1; the weight gradient keyed l has sizes[l]
\* rows and sizes[l-1] columns and its element (r, c) is the sum over the n
\* examples of delta_l[r] * a_{l-1}[c], divided by n; the bias gradient has
\* sizes[l] elements, the j-th being the sum over the n examples of
\* delta_l[j], divided by n.  Each example is one term of each sum.
C14_GradientsAreMeans ==
  call.op = "compute_gradients" /\ call.per_tr_ex_data # <<>> =>
    LET per == call.per_tr_ex_data
        n == Len(per)
        g == call.result
    IN /\ DOMAIN g = Layers
       /\ \A l \in Layers :
            /\ g[l][1].rows = sizes[l + 1]
            /\ g[l][1].columns = sizes[l - 1 + 1]
            /\ Len(g[l][1].data) = sizes[l + 1] * sizes[l - 1 + 1]
            /\ \A r \in 0..(sizes[l + 1] - 1), c \in 0..(sizes[l - 1 + 1] - 1) :
                 MGet(g[l][1], r, c) =
                   FDiv(FSum([k \in 1..n |->
                                FMul(per[k][2][l][r + 1],
                                     per[k][1][l - 1 + 1].activations_vector[c + 1])]),
                        AsF64(n))
            /\ Len(g[l][2]) = sizes[l + 1]
            /\ \A j \in 1..sizes[l + 1] :
                 g[l][2][j] = FDiv(FSum([k \in 1..n |-> per[k][2][l][j]]), AsF64(n))

\* the gradients of a network of sizes 2, 2, 1 were computed from two
\* examples whose errors differ, and the first layer's are not all zero
C14_Witness ==
  /\ call.op = "compute_gradients"
  /\ sizes = <<2, 2, 1>>
  /\ Len(call.per_tr_ex_data) = 2
  /\ call.per_tr_ex_data[1][2] # call.per_tr_ex_data[2][2]
  /\ \E k \in 1..4 : call.result[1][1].data[k] # 0
  /\ call.result[2][2][1] # 0

\* C15: the collect step of an epoch leaves a list with one pair per
\* example of the training set, in the order of the set: the k-th pair is
\* what feed_forward_capturing returns for the k-th input and what backprop
\* returns for the k-th desired output and those intermediates, all with the
\* parameters the epoch started with (no update of this epoch has run).  The
\* list holds nothing else, whatever it held before; only the collect step
\* changes it.  The aggregate step follows the collect step and nothing
\* else, runs compute_gradients on that whole list with the same parameters,
\* and is the only step that computes the gradients; an epoch has one of
\* each.
C15_CollectThenAggregate ==
  [][/\ pc = "collect" =>
          /\ updates = epocs_count
          /\ <<weights, biases>>' = <<weights, biases>>
          /\ Len(per_tr_ex_data') = Len(training_data)
          /\ \A k \in 1..Len(training_data) :
               /\ per_tr_ex_data'[k][1] =
                    feed_forward_capturing(Self, training_data[k].input_v)
               /\ per_tr_ex_data'[k][2] =
                    backprop(Self, training_data[k].desired_output_v, per_tr_ex_data'[k][1])
          /\ pc' = "aggregate"
     /\ pc # "collect" => per_tr_ex_data' = per_tr_ex_data
     /\ pc = "aggregate" =>
          /\ updates = epocs_count
          /\ Len(per_tr_ex_data) = Len(training_data)
          /\ epoch_start = <<weights, biases>>
          /\ gradients' = compute_gradients(Self, per_tr_ex_data)
          /\ pc' \in {"gradcheck", "update"}
     /\ pc \notin {"aggregate", "update"} => gradients' = gradients
     /\ pc' = "aggregate" => pc = "collect"
     /\ pc' = "collect" => /\ pc \in {"init", "update", "costcheck"}
                           /\ epocs_count' = updates'
    ]_vars

\* the pairs of the second epoch have been collected for two examples, and
\* they are not the pairs of a first epoch
C15_Witness ==
  /\ pc = "aggregate"
  /\ epocs_count = 1
  /\ Len(training_data) = 2
  /\ Len(per_tr_ex_data) = 2
  /\ per_tr_ex_data[1] # per_tr_ex_data[2]
  /\ \A seed \in Seeds : per_tr_ex_data # CollectAll(new(sizes, seed), training_data)

C18_DimensionMismatch ==
  /\ (call.op = "feed_forward" =>
        IF Len(call.inputs) # sizes[0 + 1]
        THEN /\ call.result.panicked
             /\ DOMAIN call.result = {"panicked", "message"}
        ELSE /\ ~call.result.panicked
             /\ Len(call.result.value) = sizes[LastLayer + 1]
             /\ call.result.value = feed_forward(Self, call.inputs))
  /\ (call.op = "cost_single_tr_ex" =>
        IF Len(call.tr_ex.input_v) # sizes[0 + 1]
        THEN /\ call.result.panicked
             /\ DOMAIN call.result = {"panicked", "message"}
             /\ call.result.message =
                  "input_v must have the same number of elements as the number of neurons in the input layer"
        ELSE IF Len(call.tr_ex.desired_output_v) # sizes[LastLayer + 1]
        THEN /\ call.result.panicked
             /\ DOMAIN call.result = {"panicked", "message"}
             /\ call.result.message = "input_v and desired_output_v must have the same length"
        ELSE /\ ~call.result.panicked
             /\ call.result.value # NaN
             /\ call.result.value =
                  quadratic_cost(call.tr_ex.desired_output_v,
                                 feed_forward(Self, call.tr_ex.input_v)))

\* cost_single_tr_ex has panicked for an example of a network of sizes
\* 2, 2, 1 whose input has three elements and whose desired output has one
C18_Witness ==
  /\ call.op = "cost_single_tr_ex"
  /\ sizes = <<2, 2, 1>>
  /\ Len(call.tr_ex.input_v) = 3
  /\ Len(call.tr_ex.desired_output_v) = 1
  /\ call.result.panicked

\* train has panicked because the cost increased
CostIncreasedPanic == panic # None /\ panic[1].message = "cost increased"

\* C19: when the cost check has made train panic, the panic carries the
\* cost stored before (the last of the stored costs), the cost of the
\* network as the epoch's update left it, which is greater, and the number
\* of the epochs completed before this one (the epoch's zero-based index:
\* one less than the updates executed, and the number of costs the check
\* stored after the initial one); train has stopped there: no step
\* follows, and no final cost has been computed.
C19_CostIncreaseReport ==
  /\ [](CostIncreasedPanic =>
          /\ pc = "panicked"
          /\ Options.cost_decreasing_check
          /\ panic[1].from = prev_cost
          /\ panic[1].from = costs[Len(costs)]
          /\ panic[1].to = cost_training_set(Self, training_data)
          /\ panic[1].to > panic[1].from
          /\ panic[1].from # NaN
          /\ panic[1].epoc = epocs_count
          /\ panic[1].epoc = updates - 1
          /\ panic[1].epoc = Len(costs) - 1
          /\ panic[1].epoc < epocs
          /\ final_cost = 0)
  /\ [][/\ pc # "panicked"
        /\ (pc = "costcheck" /\ pc' = "panicked") => CostIncreasedPanic'
        /\ CostIncreasedPanic' => pc = "costcheck"
       ]_vars

\* train has panicked in its second epoch (index 1), whose update made the
\* cost greater than the first epoch's
C19_Witness ==
  /\ pc = "panicked"
  /\ CostIncreasedPanic
  /\ panic[1].epoc = 1
  /\ Len(costs) = 2
  /\ costs[2] <= costs[1]
  /\ panic[1].to > costs[2]

\* the flags train was called with
GradientCheckingSet == check_options # None /\ check_options[1].gradient_checking
CostDecreasingCheckSet == check_options # None /\ check_options[1].cost_decreasing_check

\* C20: after the aggregate step of an epoch comes the gradient check if
\* gradient_checking is set and the update if it is not, whatever
\* cost_decreasing_check is; after the update comes the cost check if
\* cost_decreasing_check is set and the end of the epoch if it is not,
\* whatever gradient_checking is.  train is in the gradient check, or has
\* panicked on it, only with gradient_checking set, and is in the cost
\* check, or has panicked on it, only with cost_decreasing_check set.  With
\* no CheckOptions, or with no_checks(), neither check runs and train does
\* not panic.
C20_TogglesIndependent ==
  /\ [][/\ pc = "aggregate" =>
             pc' = IF GradientCheckingSet THEN "gradcheck" ELSE "update"
        /\ pc = "update" =>
             IF CostDecreasingCheckSet THEN pc' = "costcheck"
             ELSE pc' \in {"collect", "done"}
        /\ check_options' = check_options
       ]_vars
  /\ [](Phase(pc) = "GradientCheck" => GradientCheckingSet)
  /\ [](pc = "costcheck" => CostDecreasingCheckSet)
  /\ [](panic # None =>
          IF panic[1].message = "failed gradient check" THEN GradientCheckingSet
          ELSE panic[1].message = "cost increased" /\ CostDecreasingCheckSet)
  /\ [](check_options \in {None, Some(no_checks)} =>
          /\ Phase(pc) \notin {"GradientCheck", "CostCheck", "Aborted"}
          /\ panic = None
          /\ acg = NoAcg
          /\ Len(costs) <= 1)

\* with gradient_checking alone set, the first epoch of a non-empty training
\* set has ended: its gradient check has run and passed, and no cost was
\* stored for it
C20_Witness ==
  /\ check_options = Some(CheckOptions(TRUE, FALSE))
  /\ epocs_count = 1
  /\ updates = 1
  /\ training_data # <<>>
  /\ Len(acg.gradient) = Len(unroll_weights_and_biases(Self))
  /\ Len(costs) = 1

RECURSIVE SumOfSquaredDifferences(_, _, _)
\* (a[1] - b[1])^2 + ... + (a[n] - b[n])^2, in units of 1 / Unit^2
SumOfSquaredDifferences(a, b, n) ==
  IF n = 0 THEN 0
  ELSE SumOfSquaredDifferences(a, b, n - 1) + (a[n] - b[n]) * (a[n] - b[n])

\* C21: for vectors of equal length quadratic_cost(desired, actual) is one
\* half of the sum of the squared elementwise differences, so it is 0 when
\* the two vectors are the same (and 4.0 for [4,4] and [2,2]); for vectors
\* of different lengths it fails and returns no value.
C21_QuadraticCostIsHalfTheSum ==
  call.op = "quadratic_cost" =>
    LET desired_v == call.desired_v
        actual_v == call.actual_v
    IN /\ Len(desired_v) = Len(actual_v) =>
            /\ ~call.result.panicked
            /\ 2 * call.result.value * Unit =
                 SumOfSquaredDifferences(desired_v, actual_v, Len(desired_v))
            /\ desired_v = actual_v => call.result.value = 0
            /\ desired_v = <<4 * Unit, 4 * Unit>> /\ actual_v = <<2 * Unit, 2 * Unit>>
                 => call.result.value = 4 * Unit
       /\ Len(desired_v) # Len(actual_v) =>
            /\ call.result.panicked
            /\ "value" \notin DOMAIN call.result

\* quadratic_cost has returned a nonzero cost for two vectors of two elements
C21_Witness ==
  /\ call.op = "quadratic_cost"
  /\ Len(call.desired_v) = 2
  /\ Len(call.actual_v) = 2
  /\ ~call.result.panicked
  /\ call.result.value > 0

RECURSIVE SumOfCosts(_, _)
\* the sum of the first n costs of a sequence of numbers
SumOfCosts(cs, n) == IF n = 0 THEN 0 ELSE SumOfCosts(cs, n - 1) + cs[n]

\* C22: for a non-empty training set of n examples cost_training_set is the
\* sum of cost_single_tr_ex over the examples divided by n (rounded to the
\* nearest number of the grid), the mean and not the sum: with two examples
\* of nonzero total cost it differs from the sum.
C22_CostIsTheMean ==
  call.op = "cost_training_set" /\ training_data # <<>> =>
    LET n == Len(training_data)
        sum == SumOfCosts(call.singles, n)
    IN /\ \A k \in 1..n : call.singles[k] # NaN /\ call.singles[k] >= 0
       /\ call.result # NaN
       /\ 2 * (n * call.result - sum) <= n
       /\ 2 * (sum - n * call.result) < n
       /\ n > 1 /\ sum > 1 => call.result # sum

\* cost_training_set has returned the mean of two different nonzero costs
C22_Witness ==
  /\ call.op = "cost_training_set"
  /\ Len(training_data) = 2
  /\ call.singles[1] > 0
  /\ call.singles[2] > call.singles[1]
  /\ call.result > call.singles[1]
  /\ call.result < call.singles[2]

FailedGradientCheckPanic == panic = Some([message |-> "failed gradient check"])

\* C25: when the gradient check has made train panic in epoch k (k epochs
\* were completed before), the update of epoch k has not been applied: every
\* weight and bias has its value of the start of the epoch, the gradients are
\* the ones computed from these parameters (not yet multiplied by the
\* learning rate) and are the ones the check fails on, and exactly k updates
\* have been executed.
C25_GradientCheckAbortsBeforeUpdate ==
  FailedGradientCheckPanic =>
    /\ pc = "panicked"
    /\ Options.gradient_checking
    /\ epocs_count < epocs
    /\ <<weights, biases>> = epoch_start
    /\ updates = epocs_count
    /\ per_tr_ex_data = CollectAll(Self, training_data)
    /\ gradients = compute_gradients(Self, per_tr_ex_data)
    /\ GradientCheckFails
    /\ final_cost = 0

\* the gradient check has made train panic in its second epoch (index 1),
\* after an update that changed the network
C25_Witness ==
  /\ pc = "panicked"
  /\ FailedGradientCheckPanic
  /\ epocs_count = 1
  /\ updates = 1
  /\ \A seed \in Seeds : weights # new(sizes, seed).weights

\* the network as it was when the current epoch began
EpochStartSelf == SimpleNeuralNetwork(sizes, epoch_start[1], epoch_start[2])

\* C26: when the cost check has made train panic in epoch k, the update of
\* epoch k has been applied and stays applied: every weight and bias is its
\* value of the start of the epoch less the gradient times the learning
\* rate, the network's cost is the increased cost, exactly k + 1 updates
\* have been executed, and the stored previous cost is still the cost of
\* the network as it was before epoch k, the last cost stored.
C26_CostCheckAbortsAfterUpdate ==
  CostIncreasedPanic =>
    LET k == epocs_count
        computed == compute_gradients(EpochStartSelf, per_tr_ex_data)
    IN /\ pc = "panicked"
       /\ k < epocs
       /\ updates = k + 1
       /\ \A l \in 1..(Len(sizes) - 1) :
            /\ gradients[l] = <<MMulScalar(computed[l][1], learning_rate),
                                VMulScalar(computed[l][2], learning_rate)>>
            /\ weights[l - 1 + 1] = MSub(epoch_start[1][l - 1 + 1], gradients[l][1])
            /\ biases[l - 1 + 1] = VMinus(epoch_start[2][l - 1 + 1], gradients[l][2])
       /\ <<weights, biases>> # epoch_start
       /\ FGt(cost_training_set(Self, training_data), prev_cost)
       /\ prev_cost = cost_training_set(EpochStartSelf, training_data)
       /\ Len(costs) = k + 1
       /\ prev_cost = costs[k + 1]

\* the cost check has made train panic in the first epoch: one update has
\* been executed and the previous cost is still the initial cost
C26_Witness ==
  /\ pc = "panicked"
  /\ CostIncreasedPanic
  /\ epocs_count = 0
  /\ updates = 1
  /\ prev_cost = initial_cost
  /\ weights # epoch_start[1]
  /\ biases # epoch_start[2]

\* whether every element of a vector is not-a-number
AllNaN(v) == \A i \in 1..Len(v) : v[i] = NaN

\* C27: with an empty training set the cost of the set and every entry of
\* the gradients (the analytic ones and the approximated ones) are
\* not-a-number, the result of dividing a zero sum by zero; the comparisons
\* of the gradient check and of the cost check are false on them, so train
\* never panics, whatever checks are enabled: it executes all its epochs,
\* each update leaves every weight and bias not-a-number, and it returns.
C27_EmptyTrainingSet ==
  training_data = <<>> =>
    /\ pc # "panicked"
    /\ panic = None
    /\ pc # "init" =>
         /\ initial_cost = NaN
         /\ prev_cost = NaN
         /\ AllNaN(costs)
         /\ cost_training_set(Self, training_data) = NaN
    /\ pc \in {"gradcheck", "acg_plus", "acg_minus", "acg_restore", "compare", "update"} =>
         /\ DOMAIN gradients = 1..(Len(sizes) - 1)
         /\ \A l \in DOMAIN gradients :
              AllNaN(gradients[l][1].data) /\ AllNaN(gradients[l][2])
    /\ pc = "compare" =>
         /\ Len(acg.gradient) = Len(unroll_weights_and_biases(Self))
         /\ AllNaN(acg.gradient)
         /\ GradientDistance = NaN
         /\ NormalizedDistance = NaN
         /\ ~FGt(GradientDistance, GRADIENT_CHECK_EPSILON_SQUARED)
         /\ ~FGt(NormalizedDistance, GRADIENT_CHECK_EPSILON_SQUARED)
         /\ ~GradientCheckFails
    /\ pc = "costcheck" => ~FGt(cost_training_set(Self, training_data), prev_cost)
    /\ updates >= 1 =>
         \A l \in 1..(Len(sizes) - 1) :
           AllNaN(weights[l].data) /\ AllNaN(biases[l])
    /\ updates = 0 =>
         \A l \in 1..(Len(sizes) - 1) :
           ~AllNaN(weights[l].data) /\ ~AllNaN(biases[l])
    /\ updates <= epocs
    /\ pc \in {"done", "returned"} => updates = epocs /\ epocs_count = epocs
    /\ pc = "returned" => final_cost = NaN

\* train has returned after two epochs on an empty training set, with both
\* checks enabled: two updates were executed, and the weights are
\* not-a-number
C27_Witness ==
  /\ training_data = <<>>
  /\ check_options = Some(all_checks)
  /\ pc = "returned"
  /\ epocs = 2
  /\ updates = 2
  /\ Len(costs) = 3
  /\ AllNaN(weights[1].data)

====
